---- MODULE Spec2Model ----
(***************************************************************************)
(* Model of bevy_observers (src/src/lib.rs): the Observers marker          *)
(* component, its on_insert hook, and the part of the host ECS the hook    *)
(* talks to (component storage, the deferred command queue, its flush and  *)
(* entity-targeted event dispatch).                                        *)
(***************************************************************************)
EXTENDS Integers, Sequences, FiniteSets, TLC

\* ---------------------------------------------------------------- bounds
MaxEntities == 4   \* entities a run allocates, observer entities included
MaxHooks    == 2   \* invocations of the hook in a run
MaxBar      == 2   \* largest value of Bar a run counts up to

\* ------------------------------------------------------- handlers, events
\* Event types.  "Foo" is the OnFoo of the test; T2, T3 are further types.
Events == {"Foo", "T2", "T3"}

\* Handler expressions a bundle author can write: the event type its On<E>
\* parameter names and what the body does.  "inc" is the body of the test
\* (adds 1 to Bar of trigger.entity); "nop" bodies change no component.
Handlers == { [ev |-> "Foo", body |-> "inc"],
              [ev |-> "T2",  body |-> "nop"],
              [ev |-> "T3",  body |-> "nop"] }

RECURSIVE SeqsUpTo(_, _)
SeqsUpTo(S, n) ==
    IF n = 0 THEN { <<>> }
    ELSE LET shorter == SeqsUpTo(S, n - 1)
         IN  shorter \cup { Append(s, x) : s \in shorter, x \in S }

\* The handler lists given to observers![...]
HandlerLists == SeqsUpTo(Handlers, MaxEntities - 1)

\* ------------------------------------------------------------ state
VARIABLES
    entities,    \* live entity ids; ids are allocated 1, 2, 3, ...
    barOf,       \* Bar storage:       entity -> i32
    markerOf,    \* Observers storage: entity -> Vec<Observer>
    observerOf,  \* Observer storage:  observer entity -> bound Observer
    queue,       \* the world's deferred command queue
    flushing,    \* the host is in the middle of applying the queue
    panicked,    \* an unwrap() failed: the operation was aborted
    inserted,    \* history: entity -> the handlers of all markers inserted on it, in order
    snap,        \* history: entity -> world right after its insertion, kept until a
                 \*          command queued by its hook is applied
    rehooked,    \* history: entities whose hook ran again since their last insertion
    last,        \* history: the last operation
    hooks        \* history: hook invocations so far

vars == << entities, barOf, markerOf, observerOf, queue, flushing, panicked,
           inserted, snap, rehooked, last, hooks >>

world == << entities, barOf, markerOf, observerOf >>

\* ------------------------------------------------------------ helpers
Range(s) == { s[i] : i \in DOMAIN s }

\* Ascending enumeration of a finite set of entity ids.
RECURSIVE Sorted(_)
Sorted(S) ==
    IF S = {} THEN <<>>
    ELSE LET m == CHOOSE x \in S : \A y \in S : x <= y
         IN  <<m>> \o Sorted(S \ {m})

NextId(ents) == Cardinality(ents) + 1

\* Observer::new(handler): an observer watching no entity yet.
ObserverNew(h) == [ev |-> h.ev, body |-> h.body, watched |-> <<>>]

\* observers![h1, ..., hn]  ==  Observers(vec![Observer::new(h1), ...])
observers_drop_last(hs) == [i \in 1..(Len(hs) - 1) |-> ObserverNew(hs[i])]
observers(hs) == [i \in 1..Len(hs) |-> ObserverNew(hs[i])]

\* Observer::with_entity: adds e to the entities the observer watches.
with_entity_unbound(observer, e) == observer
with_entity(observer, e) == [observer EXCEPT !.watched = Append(@, e)]

\* core::mem::take(&mut component.0): the value moved out, and what is left.
take_value(v) == v
take_left_clone(v) == v
take_left(v)  == <<>>

\* .into_iter().map(|observer| observer.with_entity(context.entity))
bind_all_reversed(defs, e) ==
    [i \in 1..Len(defs) |-> with_entity(defs[Len(defs) + 1 - i], e)]
bind_all_dedup(defs, e) ==
    LET keep == SelectSeq([i \in 1..Len(defs) |-> i],
                          LAMBDA i : \A j \in 1..(i - 1) : defs[j] # defs[i])
    IN  [k \in 1..Len(keep) |-> with_entity(defs[keep[k]], e)]
bind_all_twice(defs, e) ==
    [i \in 1..(2 * Len(defs)) |-> with_entity(defs[(i + 1) \div 2], e)]
bind_all(defs, e) == [i \in 1..Len(defs) |-> with_entity(defs[i], e)]

\* Commands.
SpawnBatch(obs, e)  == [cmd |-> "spawn_batch", batch |-> obs, by |-> e]
RemoveObservers(e)  == [cmd |-> "remove", entity |-> e, by |-> e]

\* ------------------------------------------------------------ the hook
\* Outcome of the hook that aborts at the unwrap() of line 54.
Abort_silent(m, q) == [panic |-> FALSE, markerOf |-> m, queue |-> q]
Abort(m, q) == [panic |-> TRUE, markerOf |-> m, queue |-> q]

\* Variants of the hook with one statement changed.
on_insert_no_remove(m, q, e) ==
    IF e \notin DOMAIN m
    THEN Abort(m, q)
    ELSE [ panic    |-> FALSE,
           markerOf |-> [m EXCEPT ![e] = take_left(m[e])],
           queue    |-> q \o << SpawnBatch(bind_all(take_value(m[e]), e), e) >> ]

on_insert_direct(m, q, e) ==
    IF e \notin DOMAIN m
    THEN Abort(m, q)
    ELSE [ panic    |-> FALSE,
           markerOf |-> [x \in DOMAIN m \ {e} |-> m[x]],
           queue    |-> q \o << SpawnBatch(bind_all(take_value(m[e]), e), e),
                                RemoveObservers(e) >> ]

on_insert_remove_first(m, q, e) ==
    IF e \notin DOMAIN m
    THEN Abort(m, q)
    ELSE [ panic    |-> FALSE,
           markerOf |-> [m EXCEPT ![e] = take_left(m[e])],
           queue    |-> q \o << RemoveObservers(e),
                                SpawnBatch(bind_all(take_value(m[e]), e), e) >> ]

on_insert_per_observer(m, q, e) ==
    IF e \notin DOMAIN m
    THEN Abort(m, q)
    ELSE LET bound == bind_all(take_value(m[e]), e)
         IN  [ panic    |-> FALSE,
               markerOf |-> [m EXCEPT ![e] = take_left(m[e])],
               queue    |-> q \o [i \in 1..Len(bound) |-> SpawnBatch(<< bound[i] >>, e)]
                              \o << RemoveObservers(e) >> ]

on_insert_wrong_target(m, q, e) ==
    IF e \notin DOMAIN m
    THEN Abort(m, q)
    ELSE LET t == CHOOSE x \in DOMAIN m : \A y \in DOMAIN m : x <= y
         IN  [ panic    |-> FALSE,
               markerOf |-> [m EXCEPT ![e] = take_left(m[e])],
               queue    |-> q \o << SpawnBatch(bind_all(take_value(m[e]), t), e),
                                    RemoveObservers(e) >> ]

\* fn on_insert(world: DeferredWorld, context: HookContext), context.entity = e,
\* run on a world whose Observers storage is m and whose command queue is q.
\* A DeferredWorld gives no structural access, so the outcome is the new
\* Observers storage, the new queue and whether the hook panicked.
on_insert(m, q, e) ==
    IF e \notin DOMAIN m
    THEN Abort(m, q)
    ELSE LET bound == bind_all(take_value(m[e]), e)
         IN  [ panic    |-> FALSE,
               markerOf |-> [m EXCEPT ![e] = take_left(m[e])],
               queue    |-> q \o << SpawnBatch(bound, e), RemoveObservers(e) >> ]

\* ------------------------------------------------------------ the host
Init ==
    /\ entities = {}
    /\ barOf = << >>
    /\ markerOf = << >>
    /\ observerOf = << >>
    /\ queue = << >>
    /\ flushing = FALSE
    /\ panicked = FALSE
    /\ inserted = << >>
    /\ snap = << >>
    /\ rehooked = {}
    /\ last = [op |-> "init"]
    /\ hooks = 0

\* The component types an entity carries in a world with these storages.
Components(e, b, m, o) ==
    (IF e \in DOMAIN b THEN {"Bar"} ELSE {}) \cup
    (IF e \in DOMAIN m THEN {"Observers"} ELSE {}) \cup
    (IF e \in DOMAIN o THEN {"Observer"} ELSE {})

\* Entities the queued spawn-batch commands will allocate.
RECURSIVE PendingEntities(_)
PendingEntities(q) ==
    IF q = << >> THEN 0
    ELSE (IF Head(q).cmd = "spawn_batch" THEN Len(Head(q).batch) ELSE 0)
         + PendingEntities(Tail(q))

\* The run stays within its bounds when n more entities are asked for by one
\* more hook invocation.
Room(n) ==
    /\ Cardinality(entities) + PendingEntities(queue) + n <= MaxEntities
    /\ hooks < MaxHooks

\* Insertion of observers![hs...] on e (a new value replaces an old one), followed
\* by the on_insert hook the component registers, run before the insertion
\* returns.  b and ents are the Bar storage and entity set after the insertion.
InsertMarker(e, hs, b, ents) ==
    LET m1 == [x \in DOMAIN markerOf \cup {e} |->
                  IF x = e THEN observers(hs) ELSE markerOf[x]]
        r  == on_insert(m1, queue, e)
    IN  /\ markerOf' = r.markerOf
        /\ queue' = r.queue
        /\ panicked' = r.panic
        /\ inserted' = [x \in DOMAIN inserted \cup {e} |->
                          IF x \in DOMAIN inserted
                          THEN (IF x = e THEN inserted[x] \o hs ELSE inserted[x])
                          ELSE hs]
        /\ snap' = [x \in DOMAIN snap \cup {e} |->
                      IF x = e
                      THEN [comps |-> Components(e, b, m1, observerOf), ents |-> ents]
                      ELSE snap[x]]
        /\ rehooked' = rehooked \ {e}
        /\ hooks' = hooks + 1
        /\ UNCHANGED << observerOf, flushing >>

\* world.spawn((Bar(0), observers![hs...]))
Spawn(hs) ==
    /\ ~panicked /\ ~flushing
    /\ Room(1 + Len(hs))
    /\ LET e == NextId(entities)
       IN  /\ entities' = entities \cup {e}
           /\ barOf' = (e :> 0) @@ barOf
           /\ InsertMarker(e, hs, barOf', entities')
           /\ last' = [op |-> "spawn", e |-> e]

\* entity.insert(observers![hs...]) on an entity spawned earlier
Insert(e, hs) ==
    /\ ~panicked /\ ~flushing
    /\ Room(Len(hs))
    /\ e \in DOMAIN barOf
    /\ InsertMarker(e, hs, barOf, entities)
    /\ last' = [op |-> "insert", e |-> e]
    /\ UNCHANGED << entities, barOf >>

\* The host invokes the hook on e once more, without an insertion.
Rehook(e) ==
    /\ ~panicked /\ ~flushing
    /\ Room(0)
    /\ e \in DOMAIN barOf
    /\ LET r == on_insert(markerOf, queue, e)
       IN  /\ markerOf' = r.markerOf
           /\ queue' = r.queue
           /\ panicked' = r.panic
    /\ rehooked' = IF e \in DOMAIN markerOf THEN rehooked \cup {e} ELSE rehooked
    /\ last' = [op |-> "rehook", e |-> e, present |-> e \in DOMAIN markerOf]
    /\ hooks' = hooks + 1
    /\ UNCHANGED << entities, barOf, observerOf, flushing, inserted, snap >>

\* The flush applies the command at the head of the queue.
ApplySpawnBatch(c) ==
    LET n   == Cardinality(entities)
        new == (n + 1) .. (n + Len(c.batch))
    IN  /\ entities' = entities \cup new
        /\ observerOf' = [x \in DOMAIN observerOf \cup new |->
                            IF x \in new THEN c.batch[x - n] ELSE observerOf[x]]
        /\ UNCHANGED << markerOf >>

ApplyRemove(c) ==
    /\ markerOf' = [x \in DOMAIN markerOf \ {c.entity} |-> markerOf[x]]
    /\ UNCHANGED << entities, observerOf >>

NextCommand(q) == Head(q)
RestOfQueue(q) == Tail(q)

FlushStep ==
    /\ ~panicked
    /\ queue # << >>
    /\ LET c == NextCommand(queue)
       IN  /\ IF c.cmd = "spawn_batch" THEN ApplySpawnBatch(c) ELSE ApplyRemove(c)
           /\ last' = [op |-> "apply"]
    /\ queue' = RestOfQueue(queue)
    /\ flushing' = (queue' # << >>)
    /\ snap' = [x \in DOMAIN snap \ {NextCommand(queue).by} |-> snap[x]]
    /\ UNCHANGED << barOf, panicked, inserted, rehooked, hooks >>

\* ------------------------------------------------------------ dispatch
\* An observer runs for an event of type ev targeted at e when it observes ev
\* and either watches e or watches no entity at all (a global observer).
Watches(o, ev, e) ==
    /\ o.ev = ev
    /\ (o.watched = << >> \/ e \in Range(o.watched))

\* The handler body of the test: query.get_mut(trigger.entity).unwrap().0 += 1
RunBody(body, b, e) ==
    IF body = "inc"
    THEN (IF e \in DOMAIN b
          THEN [panic |-> FALSE, barOf |-> [b EXCEPT ![e] = @ + 1]]
          ELSE [panic |-> TRUE, barOf |-> b])
    ELSE [panic |-> FALSE, barOf |-> b]

RECURSIVE RunAll(_, _, _)
RunAll(os, b, e) ==
    IF os = << >> THEN [panic |-> FALSE, barOf |-> b]
    ELSE LET r == RunBody(observerOf[Head(os)].body, b, e)
         IN  IF r.panic THEN r ELSE RunAll(Tail(os), r.barOf, e)

\* world.trigger(ev { entity: e }), called on a world whose queue was flushed
\* when the operation before it returned.
Trigger(ev, e) ==
    /\ ~panicked /\ ~flushing
    /\ queue = << >>
    /\ e \in DOMAIN barOf
    /\ LET ran == SelectSeq(Sorted(DOMAIN observerOf),
                            LAMBDA o : Watches(observerOf[o], ev, e))
           r   == RunAll(ran, barOf, e)
       IN  /\ barOf' = r.barOf
           /\ panicked' = r.panic
           /\ \A x \in DOMAIN r.barOf : r.barOf[x] <= MaxBar
           /\ last' = [op |-> "trigger", e |-> e, ev |-> ev, ran |-> ran,
                       was |-> barOf[e]]
    /\ UNCHANGED << entities, markerOf, observerOf, queue, flushing,
                    inserted, snap, rehooked, hooks >>

Next ==
    \/ \E hs \in HandlerLists : Spawn(hs)
    \/ \E e \in entities, hs \in HandlerLists : Insert(e, hs)
    \/ \E e \in entities : Rehook(e)
    \/ FlushStep
    \/ \E ev \in Events, e \in entities : Trigger(ev, e)

Spec == Init /\ [][Next]_vars

\* ------------------------------------------------------------ properties
Hosts == DOMAIN inserted

IncOnFoo == [ev |-> "Foo", body |-> "inc"]

\* The observer entities that watch exactly e, oldest first.
BoundTo(e) ==
    SelectSeq(Sorted(DOMAIN observerOf), LAMBDA o : observerOf[o].watched = << e >>)

\* The observers already spawned for e, oldest first.
SpawnedFor(e) == [i \in 1..Len(BoundTo(e)) |-> observerOf[BoundTo(e)[i]]]

\* The observers the queued spawn-batch commands of e's hook will spawn.
RECURSIVE PendingFor(_, _)
PendingFor(q, e) ==
    IF q = << >> THEN << >>
    ELSE (IF Head(q).cmd = "spawn_batch" /\ Head(q).by = e
          THEN Head(q).batch ELSE << >>) \o PendingFor(Tail(q), e)

\* What the declarations inserted on e call for: definition i, bound to e.
ExpectedFor(e) ==
    [i \in 1..Len(inserted[e]) |->
        [ev |-> inserted[e][i].ev, body |-> inserted[e][i].body, watched |-> << e >>]]

\* C1: once the queue is flushed after insertions on E, E carries no marker and
\* exactly |D| entities other than the hosts exist for E, each an observer bound
\* to E and allocated after E; with |D| = 0 there is none.
C1_FlushedInsertion ==
    queue = << >> =>
        /\ entities = Hosts \cup DOMAIN observerOf
        /\ Hosts \cap DOMAIN observerOf = {}
        /\ \A o \in DOMAIN observerOf : \E e \in Hosts : observerOf[o].watched = << e >>
        /\ \A e \in Hosts :
              /\ e \notin DOMAIN markerOf
              /\ Len(BoundTo(e)) = Len(inserted[e])
              /\ \A i \in 1..Len(BoundTo(e)) : BoundTo(e)[i] > e

C1_Witness ==
    /\ queue = << >>
    /\ \E e1, e2 \in Hosts :
          /\ inserted[e1] = << >> /\ BoundTo(e1) = << >>
          /\ Len(inserted[e2]) = 2 /\ Len(BoundTo(e2)) = 2
          /\ e2 \notin DOMAIN markerOf

\* C2: on an entity whose marker held the single definition "add 1 to Bar on
\* Foo", every trigger of Foo targeted at it runs that one handler once: Bar is
\* one more than before the trigger (1 after the first trigger, 2 after the
\* second).
C2_IncrementPerTrigger ==
    (last.op = "trigger" /\ last.ev = "Foo" /\ inserted[last.e] = << IncOnFoo >>) =>
        /\ last.ran = BoundTo(last.e)
        /\ Len(last.ran) = 1
        /\ barOf[last.e] = last.was + 1

C2_Witness ==
    /\ last.op = "trigger" /\ last.ev = "Foo"
    /\ inserted[last.e] = << IncOnFoo >>
    /\ last.was = 1
    /\ barOf[last.e] = 2

\* C3: in every state the observers already spawned for E followed by those
\* still queued for E are the declared definitions d_1..d_n in declaration
\* order, each bound to E; after the flush the i-th observer entity of E is d_i.
C3_OrderPreserved ==
    \A e \in Hosts :
        /\ SpawnedFor(e) \o PendingFor(queue, e) = ExpectedFor(e)
        /\ queue = << >> =>
              \A i \in 1..Len(inserted[e]) :
                  /\ i <= Len(BoundTo(e))
                  /\ observerOf[BoundTo(e)[i]].ev = inserted[e][i].ev
                  /\ observerOf[BoundTo(e)[i]].body = inserted[e][i].body

C3_Witness ==
    /\ queue = << >>
    /\ \E e \in Hosts :
          /\ Len(inserted[e]) = 3
          /\ inserted[e][1] # inserted[e][2]
          /\ inserted[e][2] # inserted[e][3]
          /\ SpawnedFor(e) = ExpectedFor(e)

\* C4: with no command pending no entity carries the marker, and an entity that
\* carries the marker has the removal queued by its hook still pending.
C4_MarkerTransient ==
    /\ queue = << >> => DOMAIN markerOf = {}
    /\ \A e \in DOMAIN markerOf :
          \E i \in DOMAIN queue : queue[i] = RemoveObservers(e)

C4_Witness ==
    /\ queue = << >>
    /\ last.op = "apply"
    /\ \E e \in Hosts : inserted[e] # << >> /\ e \notin DOMAIN markerOf

\* C5: a marker still on an entity after the hook ran holds no definition,
\* whatever it was inserted with.
C5_MarkerEmptied ==
    \A e \in DOMAIN markerOf : markerOf[e] = << >>

C5_Witness ==
    \E e \in DOMAIN markerOf :
        /\ Len(inserted[e]) >= 2
        /\ Len(PendingFor(queue, e)) >= 2
        /\ markerOf[e] = << >>

\* C6: from the hook's invocation on E until a command queued by E's hook is
\* applied, E has exactly the components it had right after the insertion, the
\* marker included, and no observer watching E exists that did not exist then.
C6_NoStructuralChangeBeforeFlush ==
    \A e \in DOMAIN snap :
        /\ "Observers" \in snap[e].comps
        /\ Components(e, barOf, markerOf, observerOf) = snap[e].comps
        /\ \A o \in DOMAIN observerOf :
              e \in Range(observerOf[o].watched) => o \in snap[e].ents

C6_Witness ==
    /\ flushing
    /\ DOMAIN observerOf # {}
    /\ \E e \in DOMAIN snap :
          /\ PendingFor(queue, e) # << >>
          /\ BoundTo(e) = << >>
          /\ e \in DOMAIN markerOf

DistinctEvents(hs) ==
    \A i, j \in DOMAIN hs : i # j => hs[i].ev # hs[j].ev

\* C7: on an entity whose marker held three definitions for three distinct
\* event types, exactly three observers watch it after the flush, and a trigger
\* of type Ti targeted at it runs the handler of definition i and no other.
C7_OnlyOwnEventType ==
    (/\ last.op = "trigger"
     /\ Len(inserted[last.e]) = 3
     /\ DistinctEvents(inserted[last.e])) =>
        LET e == last.e
            i == CHOOSE k \in 1..3 : inserted[e][k].ev = last.ev
        IN  /\ Cardinality({o \in DOMAIN observerOf :
                               e \in Range(observerOf[o].watched)}) = 3
            /\ Len(BoundTo(e)) = 3
            /\ last.ran = << BoundTo(e)[i] >>
            /\ observerOf[BoundTo(e)[i]].ev = last.ev
            /\ observerOf[BoundTo(e)[i]].body = inserted[e][i].body

C7_Witness ==
    /\ last.op = "trigger"
    /\ last.ev = "T3"
    /\ Len(inserted[last.e]) = 3
    /\ DistinctEvents(inserted[last.e])
    /\ inserted[last.e][3].ev = "T3"
    /\ last.ran = << BoundTo(last.e)[3] >>

\* C8: a hook invoked on an entity that does not carry the marker aborts, and
\* the step changes neither the queue nor any entity or component.
C8_MissingMarkerAborts ==
    [][ \A e \in entities :
           (/\ hooks' = hooks + 1
            /\ last'.op = "rehook" /\ last'.e = e
            /\ e \notin DOMAIN markerOf)
           => (panicked' /\ queue' = queue /\ world' = world) ]_vars

C8_Witness ==
    /\ panicked
    /\ last.op = "rehook"
    /\ ~last.present
    /\ inserted[last.e] # << >>
    /\ BoundTo(last.e) # << >>

\* C9: a second invocation of the hook on E before the flush binds no
\* definition (it queues an empty spawn batch), every definition is consumed
\* once, and after the flush E has no marker and exactly its |D| observers.
C9_ReinvocationNoOp ==
    /\ (last.op = "rehook" /\ last.present) =>
          /\ Len(queue) >= 4
          /\ queue[Len(queue) - 1] = SpawnBatch(<< >>, last.e)
          /\ queue[Len(queue)] = RemoveObservers(last.e)
    /\ \A e \in rehooked :
          /\ SpawnedFor(e) \o PendingFor(queue, e) = ExpectedFor(e)
          /\ queue = << >> =>
                /\ e \notin DOMAIN markerOf
                /\ SpawnedFor(e) = ExpectedFor(e)
                /\ Cardinality({o \in DOMAIN observerOf :
                                   e \in Range(observerOf[o].watched)})
                     = Len(inserted[e])

C9_Witness ==
    /\ queue = << >>
    /\ \E e \in rehooked :
          /\ Len(inserted[e]) = 2
          /\ Len(BoundTo(e)) = 2
          /\ e \notin DOMAIN markerOf

\* C10: a queued spawn batch always has the removal of the same invocation
\* right behind it, so the removal is never applied first; and the flush
\* applies the oldest command: a spawn batch adds its observers and leaves the
\* markers alone, a removal takes the marker off its entity.
C10_QueueShape ==
    \A i \in DOMAIN queue :
        queue[i].cmd = "spawn_batch" =>
            /\ i < Len(queue)
            /\ queue[i + 1] = RemoveObservers(queue[i].by)

C10_SpawnBeforeRemoval ==
    /\ []C10_QueueShape
    /\ [][ Len(queue') < Len(queue) =>
             LET c == Head(queue)
             IN  /\ queue' = Tail(queue)
                 /\ c.cmd = "spawn_batch" =>
                       /\ markerOf' = markerOf
                       /\ SpawnedFor(c.by)' = SpawnedFor(c.by) \o c.batch
                 /\ c.cmd = "remove" =>
                       /\ c.entity \notin DOMAIN markerOf'
                       /\ observerOf' = observerOf ]_vars

C10_Witness ==
    /\ last.op = "apply"
    /\ queue # << >>
    /\ Head(queue).cmd = "remove"
    /\ Head(queue).entity \in DOMAIN markerOf
    /\ Len(BoundTo(Head(queue).entity)) = 2
    /\ Len(queue) = 3

\* A step in which the hook ran on last'.e and returned normally.
HookStep == hooks' = hooks + 1 /\ ~panicked'

\* C11: hooks on distinct entities are independent.  A hook on E leaves every
\* other entity's marker as it was and queues commands for E only, whose
\* observers all watch E; after the common flush each entity has exactly its
\* own |D| observers, none watches the other entity, and no marker is left.
C11_OwnMarkerOnly ==
    \A x \in DOMAIN markerOf \ {last'.e} :
        x \in DOMAIN markerOf' /\ markerOf'[x] = markerOf[x]

C11_OwnCommandsOnly ==
    /\ Len(queue') = Len(queue) + 2
    /\ SubSeq(queue', 1, Len(queue)) = queue
    /\ \A i \in (Len(queue) + 1)..Len(queue') : queue'[i].by = last'.e
    /\ \A i \in DOMAIN queue'[Len(queue) + 1].batch :
          queue'[Len(queue) + 1].batch[i].watched = << last'.e >>

C11_AfterFlush ==
    queue = << >> =>
        \A e1, e2 \in Hosts :
            e1 # e2 =>
                /\ Range(BoundTo(e1)) \cap Range(BoundTo(e2)) = {}
                /\ Len(BoundTo(e1)) = Len(inserted[e1])
                /\ \A o \in Range(BoundTo(e1)) : e2 \notin Range(observerOf[o].watched)
                /\ e1 \notin DOMAIN markerOf

C11_IndependentHooks ==
    /\ []C11_AfterFlush
    /\ [][HookStep => (C11_OwnMarkerOnly /\ C11_OwnCommandsOnly)]_vars

\* Two entities inserted before one flush (their observers were allocated after
\* both), each with its own definitions.
C11_Witness ==
    /\ queue = << >>
    /\ Hosts = {1, 2}
    /\ inserted[1] # << >> /\ inserted[2] # << >>
    /\ inserted[1] # inserted[2]
    /\ BoundTo(1) = << 3 >>
    /\ BoundTo(2) = << 4 >>

\* The number of definitions the marker held when the hook of this step ran.
HookedLen ==
    IF last'.op = "rehook"
    THEN Len(markerOf[last'.e])
    ELSE Len(inserted'[last'.e])
         - (IF last'.e \in DOMAIN inserted THEN Len(inserted[last'.e]) ELSE 0)

\* C12: one hook invocation on E appends exactly two commands, one spawn batch
\* of all |D| bound observers and then the removal of E's marker, and changes
\* nothing else than E's marker list, which it leaves empty: no entity appears
\* or disappears through the hook (a spawn step adds only the entity being
\* spawned), no observer is added and no other component value changes.
C12_HookFrame ==
    [][ HookStep =>
          LET e == last'.e
              n == Len(queue)
          IN  /\ Len(queue') = n + 2
              /\ SubSeq(queue', 1, n) = queue
              /\ queue'[n + 1].cmd = "spawn_batch"
              /\ Len(queue'[n + 1].batch) = HookedLen
              /\ queue'[n + 2] = RemoveObservers(e)
              /\ observerOf' = observerOf
              /\ entities' \ entities = (IF last'.op = "spawn" THEN {e} ELSE {})
              /\ entities \subseteq entities'
              /\ \A x \in DOMAIN barOf : x \in DOMAIN barOf' /\ barOf'[x] = barOf[x]
              /\ DOMAIN barOf' \ DOMAIN barOf \subseteq entities' \ entities
              /\ DOMAIN markerOf' = DOMAIN markerOf \cup {e}
              /\ markerOf'[e] = << >>
              /\ \A x \in DOMAIN markerOf \ {e} : markerOf'[x] = markerOf[x] ]_vars

\* A hook has just run on a marker of two definitions: two commands are queued.
C12_Witness ==
    /\ last.op \in {"spawn", "insert"}
    /\ ~panicked
    /\ Len(queue) = 2
    /\ queue[1].cmd = "spawn_batch"
    /\ Len(queue[1].batch) = 2
    /\ queue[2] = RemoveObservers(last.e)
    /\ markerOf[last.e] = << >>

\* The structural part of a world, and what one command makes of it (the
\* effect of ApplySpawnBatch and of ApplyRemove as a function of the world).
Structure == [entities |-> entities, observerOf |-> observerOf, markerOf |-> markerOf]

AfterSpawnBatch(w, c) ==
    LET n   == Cardinality(w.entities)
        new == (n + 1) .. (n + Len(c.batch))
    IN  [ w EXCEPT !.entities = @ \cup new,
                   !.observerOf = [x \in DOMAIN w.observerOf \cup new |->
                                     IF x \in new THEN c.batch[x - n]
                                     ELSE w.observerOf[x]] ]

AfterRemove(w, c) ==
    [ w EXCEPT !.markerOf = [x \in DOMAIN w.markerOf \ {c.entity} |-> w.markerOf[x]] ]

AfterCommand(w, c) ==
    IF c.cmd = "spawn_batch" THEN AfterSpawnBatch(w, c) ELSE AfterRemove(w, c)

\* The observers watching exactly e in the structure w, oldest first.
BoundIn(w, e) ==
    LET os == SelectSeq(Sorted(DOMAIN w.observerOf),
                        LAMBDA o : w.observerOf[o].watched = << e >>)
    IN  [i \in 1..Len(os) |-> w.observerOf[os[i]]]

\* C13: whenever the two commands of one hook invocation on E head the queue,
\* applying the removal first and the spawn batch second gives the same world
\* as applying them in queue order: E has no marker and E's observers are those
\* it had, followed by the next declared definitions bound to E, in order.
C13_BothOrders ==
    (Len(queue) >= 2 /\ queue[1].cmd = "spawn_batch" /\ queue[2].cmd = "remove"
        /\ queue[2].by = queue[1].by) =>
        LET e   == queue[1].by
            fwd == AfterCommand(AfterCommand(Structure, queue[1]), queue[2])
            bwd == AfterCommand(AfterCommand(Structure, queue[2]), queue[1])
            k   == Len(SpawnedFor(e))
        IN  /\ fwd = bwd
            /\ e \notin DOMAIN bwd.markerOf
            /\ BoundIn(bwd, e) = SubSeq(ExpectedFor(e), 1, k + Len(queue[1].batch))
            /\ SubSeq(BoundIn(bwd, e), 1, k) = SpawnedFor(e)

FairSpec == Spec /\ WF_vars(FlushStep)

\* Every insertion so far is completed.
Completed ==
    /\ queue = << >>
    /\ DOMAIN markerOf = {}
    /\ \A e \in Hosts : SpawnedFor(e) = ExpectedFor(e)

\* C14: under fair application of the queue, a state in which some entity
\* carries the marker is followed by one in which the queue is empty, no marker
\* is left and every entity has the observers declared for it (unless the run
\* was aborted by a panic, after which nothing is applied); and applying a
\* command never runs the hook, never enqueues a command and gives no spawned
\* entity a marker.
C14_EventuallyCompleted ==
    /\ (DOMAIN markerOf # {}) ~> (Completed \/ panicked)
    /\ [][ Len(queue') < Len(queue) =>
             /\ hooks' = hooks
             /\ Len(queue') = Len(queue) - 1
             /\ (entities' \ entities) \cap DOMAIN markerOf' = {} ]_vars

C14_Witness ==
    /\ Completed
    /\ ~panicked
    /\ hooks = 2
    /\ last.op = "apply"
    /\ Cardinality(DOMAIN observerOf) = 2

\* C15: observers react only to events targeted at the entity they are bound
\* to.  Every observer entity is another entity than the one it watches and is
\* not a host; the observers a trigger at E runs all watch exactly E; with two
\* entities that each got the increment-on-Foo definition, a trigger of Foo at
\* one adds exactly 1 to its Bar; and a trigger changes no other entity's Bar.
C15_TargetedState ==
    /\ \A o \in DOMAIN observerOf :
          o \notin Range(observerOf[o].watched) /\ o \notin Hosts
    /\ last.op = "trigger" =>
          /\ \A i \in DOMAIN last.ran : observerOf[last.ran[i]].watched = << last.e >>
          /\ \A e2 \in Hosts \ {last.e} :
                (/\ last.ev = "Foo"
                 /\ inserted[last.e] = << IncOnFoo >>
                 /\ inserted[e2] = << IncOnFoo >>)
                => (barOf[last.e] = last.was + 1 /\ Len(last.ran) = 1)

C15_OnlyTargetReacts ==
    /\ []C15_TargetedState
    /\ [][ last'.op = "trigger" =>
             \A x \in DOMAIN barOf \ {last'.e} : barOf'[x] = barOf[x] ]_vars

C15_Witness ==
    /\ last.op = "trigger" /\ last.ev = "Foo" /\ last.e = 1
    /\ Hosts = {1, 2}
    /\ inserted[1] = << IncOnFoo >> /\ inserted[2] = << IncOnFoo >>
    /\ Len(BoundTo(2)) = 1
    /\ barOf[1] = 1 /\ barOf[2] = 0

\* C16: inserting a marker again on E runs the hook again and adds observers
\* to those E has.  No step changes or removes an observer that exists; an
\* insertion on an existing entity queues as many observers as the new marker
\* holds definitions, equal ones included; and after the flush E has no marker
\* and exactly |D1| + ... + |Dk| observers, the declared ones in order.
C16_AfterCycles ==
    queue = << >> =>
        \A e \in Hosts :
            /\ e \notin DOMAIN markerOf
            /\ Cardinality({o \in DOMAIN observerOf :
                               e \in Range(observerOf[o].watched)})
                 = Len(inserted[e])
            /\ SpawnedFor(e) = ExpectedFor(e)

C16_Accumulates ==
    /\ []C16_AfterCycles
    /\ [][ /\ \A o \in DOMAIN observerOf :
                 o \in DOMAIN observerOf' /\ observerOf'[o] = observerOf[o]
           /\ (last'.op = "insert" /\ HookStep) =>
                 LET e == last'.e
                 IN  /\ Len(PendingFor(queue', e))
                          = Len(PendingFor(queue, e))
                            + (Len(inserted'[e]) - Len(inserted[e]))
                     /\ observerOf' = observerOf ]_vars

\* A second marker was inserted on an entity that already has an observer from
\* an earlier, flushed insertion; its hook has queued two more.
C16_Witness ==
    /\ last.op = "insert"
    /\ ~panicked
    /\ Len(BoundTo(last.e)) = 1
    /\ Len(PendingFor(queue, last.e)) = 2
    /\ Len(inserted[last.e]) = 3
    /\ inserted[last.e][1] = inserted[last.e][2]
    /\ Len(queue) = 2

====
